---- MODULE Spec2Model ----
(***************************************************************************)
(* Model of the ssh-plugin batch runner: main (bootstrap and exit codes),  *)
(* processMetrics / processDiscovery (one task per device, result channel, *)
(* single consumer), the system-type dispatchers, the discovery gate       *)
(* progression and the metrics output parser.                              *)
(*                                                                         *)
(* Text is modelled as a sequence of one-character strings so that the     *)
(* strings.* calls of the parser are computed, not assumed.                *)
(***************************************************************************)
EXTENDS Integers, Sequences, FiniteSets, TLC

VARIABLES pc, args, env, cfg, devices, task, resultChan, chanClosed,
          consumer, enq, stdout, stderr, exitCode, rawOutput, parsed,
          decoded

vars == <<pc, args, env, cfg, devices, task, resultChan, chanClosed,
          consumer, enq, stdout, stderr, exitCode, rawOutput, parsed,
          decoded>>

\* ------------------------------------------------------------------ bounds
MaxDevices == 2
MaxLines == 3

\* --------------------------------------------------------------- constants
DefaultSSHPort == 22
NonceSize == 12

ErrConnectionFailed == "failed to establish SSH connection"
ErrAuthFailed == "authentication failed"
ErrExecutionFailed == "command execution failed"

\* ------------------------------------------------------- strings (package)
Space == {" ", "\t", "\n", "\r"}

RECURSIVE TrimLeft(_)
TrimLeft(s) ==
  IF s # <<>> /\ Head(s) \in Space THEN TrimLeft(Tail(s)) ELSE s

RECURSIVE TrimRight(_)
TrimRight(s) ==
  IF s # <<>> /\ s[Len(s)] \in Space
    THEN TrimRight(SubSeq(s, 1, Len(s) - 1))
    ELSE s

TrimSpace(s) == TrimRight(TrimLeft(s))

HasPrefix(s, p) == Len(s) >= Len(p) /\ SubSeq(s, 1, Len(p)) = p

HasSuffix(s, p) ==
  Len(s) >= Len(p) /\ SubSeq(s, Len(s) - Len(p) + 1, Len(s)) = p

TrimPrefix(s, p) ==
  IF HasPrefix(s, p) THEN SubSeq(s, Len(p) + 1, Len(s)) ELSE s

TrimSuffix(s, p) ==
  IF HasSuffix(s, p) THEN SubSeq(s, 1, Len(s) - Len(p)) ELSE s

\* strings.Split(s, "\n"): always at least one element
RECURSIVE SplitAcc(_, _, _)
SplitAcc(s, cur, acc) ==
  IF s = <<>> THEN Append(acc, cur)
  ELSE IF Head(s) = "\n" THEN SplitAcc(Tail(s), <<>>, Append(acc, cur))
  ELSE SplitAcc(Tail(s), Append(cur, Head(s)), acc)

Split(s) == SplitAcc(s, <<>>, <<>>)

\* strings.Join(lines, "\n")
RECURSIVE Join(_)
Join(ls) ==
  IF ls = <<>> THEN <<>>
  ELSE IF Len(ls) = 1 THEN ls[1]
  ELSE ls[1] \o <<"\n">> \o Join(Tail(ls))

UU == <<"_", "_">>

\* ------------------------------------------------------------ models.go
ErrorKey == <<"e", "r", "r", "o", "r">>

\* NewMetricsError with a second entry in the map.
NewMetricsErrorTwoEntries(id, errMsg) ==
  [id |-> id, success |-> FALSE,
   metrics |-> (ErrorKey :> errMsg)
                 @@ (<<"i", "d">> :> <<"device">>)]

NewMetricsError(id, errMsg) ==
  [id |-> id, success |-> FALSE, metrics |-> (ErrorKey :> errMsg)]

NewMetricsSuccess(id, data) ==
  [id |-> id, success |-> TRUE, metrics |-> data]

NewDiscoveryResult(id, success, step) ==
  [id |-> id, success |-> success, step |-> step]

\* ------------------------------------------------ metrics.go: the parser
EmptyMap == [k \in {} |-> <<>>]

MapSet(m, k, v) == [x \in DOMAIN m \cup {k} |-> IF x = k THEN v ELSE m[x]]

IsMarker(line) == HasPrefix(line, UU) /\ HasSuffix(line, UU)

\* one iteration of the loop over lines; st = [metrics, currentMetric]
ParseLine(st, rawLine) ==
  LET line == TrimSpace(rawLine) IN
  IF IsMarker(line)
    THEN [st EXCEPT !.currentMetric = TrimSuffix(TrimPrefix(line, UU), UU)]
  ELSE IF st.currentMetric # <<>>
    THEN [metrics |-> MapSet(st.metrics, st.currentMetric, line),
          currentMetric |-> <<>>]
  ELSE st

RECURSIVE ParseLines(_, _)
ParseLines(st, lines) ==
  IF lines = <<>> THEN st
  ELSE ParseLines(ParseLine(st, Head(lines)), Tail(lines))

ParseMetrics(out) ==
  ParseLines([metrics |-> EmptyMap, currentMetric |-> <<>>],
             Split(TrimSpace(out))).metrics


\* -------------------------------------------------- the remote environment
\* What the device's host does when the task talks to it: the TCP ports that
\* accept a connection, the first thing that goes wrong after that (if
\* anything) and the combined output the command line produces.
Faults == {"none", "auth", "session", "run", "cfg", "panic", "taskPanic"}

CoreOutputs ==
  { <<"_", "_", "a", "_", "_", "\n", "v", "\n">>,
    <<"v">> }

Worlds == [listen : {{}, {DefaultSSHPort}, {2222}},
           fault  : Faults,
           out    : CoreOutputs]

\* One step a task performed and how it ended ("ok", "fail", "panic").
\* The history of a task is the sequence of these, in the order performed.
Ev(op, port, res) == [op |-> op, port |-> port, res |-> res]

NetworkOps == {"probe", "dial", "session", "run"}

\* Message text is a sequence of pieces; <<>> is the empty string.
PanicText == <<"panic recovered: ", "stack">>

\* ------------------------------------------------------------- utils.go
\* net.DialTimeout succeeds exactly when the host accepts on that port;
\* port 0 is never accepted.
IsPortOpen(w, port) == port \in w.listen

\* the port CreateSSHClient dials
DialPort(dev) == IF dev.port = 0 THEN DefaultSSHPort ELSE dev.port

\* CreateSSHClient dialling a second time after a failed dial.
CreateSSHClientRetries(dev, w) ==
  LET port == DialPort(dev) IN
  IF port \notin w.listen
    THEN [ok |-> FALSE, err |-> ErrConnectionFailed,
          ops |-> <<Ev("dial", port, "fail"), Ev("dial", port, "fail")>>]
  ELSE IF w.fault = "auth"
    THEN [ok |-> FALSE, err |-> ErrAuthFailed,
          ops |-> <<Ev("dial", port, "fail"), Ev("dial", port, "fail")>>]
  ELSE [ok |-> TRUE, err |-> "", ops |-> <<Ev("dial", port, "ok")>>]

CreateSSHClient(dev, w) ==
  LET port == DialPort(dev) IN
  IF port \notin w.listen
    THEN [ok |-> FALSE, err |-> ErrConnectionFailed,
          ops |-> <<Ev("dial", port, "fail")>>]
  ELSE IF w.fault = "auth"
    THEN [ok |-> FALSE, err |-> ErrAuthFailed,
          ops |-> <<Ev("dial", port, "fail")>>]
  ELSE [ok |-> TRUE, err |-> "", ops |-> <<Ev("dial", port, "ok")>>]

ExecuteCommand(dev, w) ==
  LET port == DialPort(dev) IN
  IF w.fault = "session"
    THEN [ok |-> FALSE, err |-> "failed to create session", output |-> <<>>,
          ops |-> <<Ev("session", port, "fail")>>]
  ELSE IF w.fault = "run"
    THEN [ok |-> FALSE, err |-> ErrExecutionFailed, output |-> <<>>,
          ops |-> <<Ev("session", port, "ok"), Ev("run", port, "fail"),
                    Ev("closeSession", port, "ok")>>]
  ELSE [ok |-> TRUE, err |-> "", output |-> TrimSpace(w.out),
        ops |-> <<Ev("session", port, "ok"), Ev("run", port, "ok"),
                  Ev("closeSession", port, "ok")>>]

\* --------------------------------------------------------- discovery.go
\* DiscoverySession without the return after a failed NewSession: the
\* command is still attempted and its gate is the one reported.
DiscoverySessionNoReturn(dev, w, hist) ==
  LET p   == DialPort(dev)
      rel == <<Ev("closeSession", p, "ok"), Ev("closeClient", p, "ok")>>
  IN
  IF w.fault \in {"panic", "session", "run"}
    THEN [result |-> NewDiscoveryResult(dev.id, FALSE, <<"uptime">>),
          ops |-> hist \o <<Ev("session", p, IF w.fault = "run" THEN "ok"
                                             ELSE "fail"),
                            Ev("run", p, "fail")>> \o rel]
  ELSE [result |-> NewDiscoveryResult(dev.id, TRUE, <<>>),
        ops |-> hist \o <<Ev("session", p, "ok"), Ev("run", p, "ok")>>
                     \o rel]

\* DiscoverySession closing the client only on the path that ran the
\* command: the early returns leave the transport connection open.
DiscoverySessionLeaksClient(dev, w, hist) ==
  LET p    == DialPort(dev)
      rel2 == <<Ev("closeSession", p, "ok"), Ev("closeClient", p, "ok")>>
  IN
  IF w.fault = "panic"
    THEN [result |-> NewDiscoveryResult(dev.id, FALSE, PanicText),
          ops |-> hist \o <<Ev("session", p, "panic")>>]
  ELSE IF w.fault = "session"
    THEN [result |-> NewDiscoveryResult(dev.id, FALSE, <<"session">>),
          ops |-> hist \o <<Ev("session", p, "fail")>>]
  ELSE IF w.fault = "run"
    THEN [result |-> NewDiscoveryResult(dev.id, FALSE, <<"uptime">>),
          ops |-> hist \o <<Ev("session", p, "ok"), Ev("run", p, "fail")>>
                       \o rel2]
  ELSE [result |-> NewDiscoveryResult(dev.id, TRUE, <<>>),
        ops |-> hist \o <<Ev("session", p, "ok"), Ev("run", p, "ok")>>
                     \o rel2]

\* Steps 3 and 4 of PerformDiscovery, on the client the dial returned; hist
\* is the history so far.  A runtime panic is raised in client.NewSession
\* when the environment says so; the deferred Close calls run on the way out.
DiscoverySession(dev, w, hist) ==
  LET p    == DialPort(dev)
      rel1 == <<Ev("closeClient", p, "ok")>>
      rel2 == <<Ev("closeSession", p, "ok"), Ev("closeClient", p, "ok")>>
  IN
  IF w.fault = "panic"
    THEN [result |-> NewDiscoveryResult(dev.id, FALSE, PanicText),
          ops |-> hist \o <<Ev("session", p, "panic")>> \o rel1]
  ELSE IF w.fault = "session"
    THEN [result |-> NewDiscoveryResult(dev.id, FALSE, <<"session">>),
          ops |-> hist \o <<Ev("session", p, "fail")>> \o rel1]
  ELSE IF w.fault = "run"
    THEN [result |-> NewDiscoveryResult(dev.id, FALSE, <<"uptime">>),
          ops |-> hist \o <<Ev("session", p, "ok"), Ev("run", p, "fail")>>
                       \o rel2]
  ELSE [result |-> NewDiscoveryResult(dev.id, TRUE, <<>>),
        ops |-> hist \o <<Ev("session", p, "ok"), Ev("run", p, "ok")>>
                     \o rel2]

\* the history of IsPortOpen returning true: the probe connection is
\* opened and closed at once
ProbeOk(dev) ==
  <<Ev("probe", dev.port, "ok"), Ev("closeProbe", dev.port, "ok")>>

\* PerformDiscovery putting the dial error's text into step.
PerformDiscoveryLeaksError(dev, w) ==
  LET c == CreateSSHClient(dev, w) IN
  IF ~IsPortOpen(w, dev.port)
    THEN [result |-> NewDiscoveryResult(dev.id, FALSE, <<"port">>),
          ops |-> <<Ev("probe", dev.port, "fail")>>]
  ELSE IF ~c.ok
    THEN [result |-> NewDiscoveryResult(dev.id, FALSE, <<c.err>>),
          ops |-> ProbeOk(dev) \o c.ops]
  ELSE DiscoverySession(dev, w, ProbeOk(dev) \o c.ops)

\* Returns the result and the history of the call.
PerformDiscovery(dev, w) ==
  LET c == CreateSSHClient(dev, w) IN
  IF ~IsPortOpen(w, dev.port)
    THEN [result |-> NewDiscoveryResult(dev.id, FALSE, <<"port">>),
          ops |-> <<Ev("probe", dev.port, "fail")>>]
  ELSE IF ~c.ok
    THEN [result |-> NewDiscoveryResult(dev.id, FALSE, <<"sshAuth">>),
          ops |-> ProbeOk(dev) \o c.ops]
  ELSE DiscoverySession(dev, w, ProbeOk(dev) \o c.ops)

\* ----------------------------------------------------------- metrics.go
\* CollectParse without the check for an empty map.
CollectParseNoZeroCheck(dev, output) ==
  [result |-> NewMetricsSuccess(dev.id, ParseMetrics(output)),
   ops |-> <<Ev("parse", 0, "ok")>>]

\* The parse of the command output and the result built from it.
CollectParse(dev, output) ==
  LET m == ParseMetrics(output) IN
  IF Cardinality(DOMAIN m) = 0
    THEN [result |-> NewMetricsError(dev.id, <<ErrExecutionFailed>>),
          ops |-> <<Ev("parse", 0, "fail")>>]
    ELSE [result |-> NewMetricsSuccess(dev.id, m),
          ops |-> <<Ev("parse", 0, "ok")>>]

\* Returns the result and the history of the call.  A runtime panic is
\* raised in config.LoadConfig when the environment says so; the deferred
\* client.Close runs on the way out.
CollectMetrics(dev, w) ==
  LET c   == CreateSSHClient(dev, w)
      rel == <<Ev("closeClient", DialPort(dev), "ok")>>
      x   == ExecuteCommand(dev, w)
      o2  == c.ops \o <<Ev("loadConfig", 0, "ok")>> \o x.ops
      r   == CollectParse(dev, x.output)
  IN
  IF ~c.ok
    THEN [result |-> NewMetricsError(dev.id,
                                     <<"SSH connection error: ", c.err>>),
          ops |-> c.ops]
  ELSE IF w.fault = "panic"
    THEN [result |-> NewMetricsError(dev.id, PanicText),
          ops |-> c.ops \o <<Ev("loadConfig", 0, "panic")>> \o rel]
  ELSE IF w.fault = "cfg"
    THEN [result |-> NewMetricsError(dev.id, <<"Config load error: ">>),
          ops |-> c.ops \o <<Ev("loadConfig", 0, "fail")>> \o rel]
  ELSE IF ~x.ok
    THEN [result |-> NewMetricsError(dev.id,
                                     <<"Command execution error: ", x.err>>),
          ops |-> o2 \o rel]
  ELSE [result |-> r.result, ops |-> o2 \o r.ops \o rel]

\* ------------------------------------------- the system-type dispatchers
GetMetricsCollector(systemType) ==
  IF systemType = "linux" THEN "linux" ELSE "unsupported"

\* GetDiscoveryPerformer comparing the type without regard to case.
GetDiscoveryPerformerAnyCase(systemType) ==
  IF systemType \in {"linux", "Linux"} THEN "linux" ELSE "unsupported"

GetDiscoveryPerformer(systemType) ==
  IF systemType = "linux" THEN "linux" ELSE "unsupported"

Collect(collector, dev, w) ==
  IF collector = "linux" THEN CollectMetrics(dev, w)
  ELSE [result |-> NewMetricsError(dev.id,
                     <<"unsupported system type: ", dev.systemType>>),
        ops |-> <<>>]

Perform(performer, dev, w) ==
  IF performer = "linux" THEN PerformDiscovery(dev, w)
  ELSE [result |-> NewDiscoveryResult(dev.id, FALSE,
                     <<"unsupported system type: ", dev.systemType>>),
        ops |-> <<>>]


\* ------------------------------------------------------------ the inputs
DevicePool ==
  { [id |-> 1, systemType |-> "linux",   port |-> 2222],
    [id |-> 2, systemType |-> "linux",   port |-> 0],
    [id |-> 3, systemType |-> "windows", port |-> DefaultSSHPort],
    [id |-> 1, systemType |-> "Linux",   port |-> 0] }

RECURSIVE SeqsUpTo(_, _)
SeqsUpTo(S, n) ==
  IF n = 0 THEN {<<>>}
  ELSE LET shorter == SeqsUpTo(S, n - 1) IN
       shorter \cup {Append(q, x) : q \in {t \in shorter : Len(t) = n - 1},
                                    x \in S}

Batches == SeqsUpTo(DevicePool, MaxDevices)

\* encryption.key of the configuration: whether the text is hexadecimal,
\* how many bytes it decodes to and which secret it is.
KeyEmpty  == [hex |-> TRUE,  bytes |-> 0,  secret |-> 0]
KeyBadHex == [hex |-> FALSE, bytes |-> 0,  secret |-> 0]
KeyShort  == [hex |-> TRUE,  bytes |-> 5,  secret |-> 0]
KeyGood   == [hex |-> TRUE,  bytes |-> 32, secret |-> 1]
KeyOther  == [hex |-> TRUE,  bytes |-> 32, secret |-> 2]
Keys == {KeyEmpty, KeyBadHex, KeyShort, KeyGood, KeyOther}

\* ------------------------------------------- main.go: the envelope layers
\* Bytes are terms that show which layer produced them, so that each decode
\* stage accepts exactly what the matching encode stage produces.
JsonArray(v)  == <<"json", "array", v>>
JsonObject(v) == <<"json", "object", v>>
SnappyEncode(b) == <<"snappy", b>>
GCMSeal(key, nonce, plaintext) == <<"gcm", key.secret, nonce, plaintext>>
GCMTagSize == 16
\* append(nonce, encrypted...): the first NonceSize bytes and the rest
WithNonce(nonce, encrypted) ==
  [len |-> NonceSize + GCMTagSize, head |-> nonce, rest |-> encrypted]
Base64Encode(bytes) == <<"base64", bytes>>

\* EnvelopeNoNonce: the sealed bytes are encoded without the nonce in front,
\* so their first NonceSize bytes are ciphertext.
EnvelopeNoNonce(plaintext, key, nonce) ==
  Base64Encode([len |-> GCMTagSize, head |-> -1,
                rest |-> <<"cut", GCMSeal(key, nonce,
                                          SnappyEncode(plaintext))>>])

\* compress, seal under the nonce, prepend the nonce, Base64
Envelope(plaintext, key, nonce) ==
  Base64Encode(WithNonce(nonce,
                         GCMSeal(key, nonce, SnappyEncode(plaintext))))

\* ciphertext with a flipped byte: no key authenticates it
Tamper(sealed) == <<"gcm", -1, sealed[3], sealed[4]>>

\* ------------------------------------------------------- the input file
FileNonce == 7

GoodFile(batch) ==
  [readable |-> TRUE, text |-> Envelope(JsonArray(batch), KeyGood, FileNonce)]

\* files whose plaintext, once opened, is not what the later stages expect
SealedFile(plaintext) ==
  [readable |-> TRUE,
   text |-> Base64Encode(WithNonce(FileNonce,
                                   GCMSeal(KeyGood, FileNonce, plaintext)))]

TamperedFile(plaintext) ==
  [readable |-> TRUE,
   text |-> Base64Encode(WithNonce(FileNonce,
              Tamper(GCMSeal(KeyGood, FileNonce, plaintext))))]

BadPlaintexts ==
  { JsonArray(<<>>),
    SnappyEncode(<<"garbage">>),
    SnappyEncode(JsonObject(<<>>)) }

Files ==
  { GoodFile(b) : b \in Batches } \cup
  { [GoodFile(<<>>) EXCEPT !.readable = FALSE],
    [readable |-> TRUE, text |-> <<"text">>],
    [readable |-> TRUE,
     text |-> Base64Encode([len |-> NonceSize - 1, head |-> 0,
                            rest |-> <<>>])],
    TamperedFile(SnappyEncode(JsonArray(<<>>))) } \cup
  { SealedFile(x) : x \in BadPlaintexts } \cup
  { TamperedFile(x) : x \in BadPlaintexts }

Modes == {"metrics", "discovery", "bogus"}

\* ------------------------------------------------------------- config.go
NoCfg == [loaded |-> FALSE]

LoadConfig(e) ==
  IF e.cfgOk THEN [ok |-> TRUE, cfg |-> [loaded |-> TRUE, key |-> e.key]]
  ELSE [ok |-> FALSE, cfg |-> NoCfg]

\* ------------------------------------------ main.go: the envelope decode
AESKeySizes == {16, 24, 32}

StageOrder ==
  <<"key", "read", "base64", "nonce", "hex", "cipher", "open", "snappy",
    "json">>

\* the error return of a stage: no devices; ran = the stages performed
DecodeError(ran) ==
  [ok |-> FALSE, stage |-> ran[Len(ran)], ran |-> ran, devices |-> <<>>]

\* decryptAndDecompressFileEagerUnpack: decompresses and parses before the
\* GCM open has authenticated the bytes.
decryptAndDecompressFileEagerUnpack(f, c) ==
  LET bytes        == f.text[2]
      ciphertext   == bytes.rest
      compressed   == ciphertext[4]
      decompressed == compressed[2]
      p            == <<"key", "read", "base64", "nonce", "hex", "cipher">>
  IN
  IF c.key = KeyEmpty THEN DecodeError(SubSeq(p, 1, 1))
  ELSE IF ~f.readable THEN DecodeError(SubSeq(p, 1, 2))
  ELSE IF f.text[1] # "base64" THEN DecodeError(SubSeq(p, 1, 3))
  ELSE IF bytes.len < NonceSize THEN DecodeError(SubSeq(p, 1, 4))
  ELSE IF ~c.key.hex THEN DecodeError(SubSeq(p, 1, 5))
  ELSE IF c.key.bytes \notin AESKeySizes THEN DecodeError(p)
  ELSE IF compressed[1] # "snappy" THEN DecodeError(Append(p, "snappy"))
  ELSE IF ~(decompressed[1] = "json" /\ decompressed[2] = "array")
    THEN DecodeError(p \o <<"snappy", "json">>)
  ELSE IF ~(/\ ciphertext[1] = "gcm"
            /\ ciphertext[2] = c.key.secret
            /\ ciphertext[3] = bytes.head)
    THEN DecodeError(p \o <<"snappy", "json", "open">>)
  ELSE [ok |-> TRUE, stage |-> "", ran |-> p \o <<"snappy", "json", "open">>,
        devices |-> decompressed[3]]

decryptAndDecompressFile(f, c) ==
  LET bytes        == f.text[2]
      nonce        == bytes.head
      ciphertext   == bytes.rest
      compressed   == ciphertext[4]
      decompressed == compressed[2]
  IN
  IF c.key = KeyEmpty THEN DecodeError(SubSeq(StageOrder, 1, 1))
  ELSE IF ~f.readable THEN DecodeError(SubSeq(StageOrder, 1, 2))
  ELSE IF f.text[1] # "base64" THEN DecodeError(SubSeq(StageOrder, 1, 3))
  ELSE IF bytes.len < NonceSize THEN DecodeError(SubSeq(StageOrder, 1, 4))
  ELSE IF ~c.key.hex THEN DecodeError(SubSeq(StageOrder, 1, 5))
  ELSE IF c.key.bytes \notin AESKeySizes
    THEN DecodeError(SubSeq(StageOrder, 1, 6))
  ELSE IF ~(/\ ciphertext[1] = "gcm"
            /\ ciphertext[2] = c.key.secret
            /\ ciphertext[3] = nonce)
    THEN DecodeError(SubSeq(StageOrder, 1, 7))
  ELSE IF compressed[1] # "snappy" THEN DecodeError(SubSeq(StageOrder, 1, 8))
  ELSE IF ~(decompressed[1] = "json" /\ decompressed[2] = "array")
    THEN DecodeError(StageOrder)
  ELSE [ok |-> TRUE, stage |-> "", ran |-> StageOrder,
        devices |-> decompressed[3]]

\* ------------------------------------------- main.go: the result encoders
\* encodeResult: JSON, then the envelope under a fresh nonce.  rnd is what
\* rand.Read delivered: the nonce, or 0 when it failed.
encodeResult(result, key, rnd) ==
  IF key.bytes \notin AESKeySizes THEN [ok |-> FALSE, line |-> <<>>]
  ELSE IF rnd = 0 THEN [ok |-> FALSE, line |-> <<>>]
  ELSE [ok |-> TRUE, line |-> Envelope(JsonObject(result), key, rnd)]

\* the values rand.Read may deliver to the consumer
RandReads == {0, 1}

\* json.Marshal of a DiscoveryResult
jsonMarshal(result) == JsonObject(result)

\* ------------------------------------------------------------------ state
NoResult == [none |-> TRUE]

\* what the decode returned, with the stages it performed (none yet)
NoDecode == [ok |-> FALSE, stage |-> "", ran |-> <<>>, devices |-> <<>>]

NewTask == [pc |-> "none", result |-> NoResult, ops |-> <<>>]

TypeOK ==
  /\ pc \in {"unit", "args", "config", "decode", "validate", "switch", "spawn",
             "wait", "close", "drain", "exited", "codecEncode",
             "codecDecode", "codecDone", "shell", "shellDone"}
  /\ exitCode \in {-1, 0, 1}
  /\ chanClosed \in BOOLEAN
  /\ consumer \in {"none", "running", "done"}
  /\ Len(resultChan) <= Len(devices)

Init ==
  /\ pc = "args"
  /\ args \in [argc : {2, 3}, mode : Modes]
  /\ env \in [cfgOk : BOOLEAN, key : Keys, file : Files]
  /\ cfg = NoCfg
  /\ devices = <<>>
  /\ task = <<>>
  /\ resultChan = <<>>
  /\ chanClosed = FALSE
  /\ consumer = "none"
  /\ enq = <<>>
  /\ stdout = <<>>
  /\ stderr = <<>>
  /\ exitCode = -1
  /\ rawOutput = <<>>
  /\ parsed = NoResult
  /\ decoded = NoDecode

\* os.Exit(code) after logging msg (msg = "" logs nothing)
Exit(code, msg) ==
  /\ pc' = "exited"
  /\ exitCode' = code
  /\ stderr' = IF msg = "" THEN stderr ELSE Append(stderr, msg)


\* ------------------------------------------------------- main.go: main
MainArgs ==
  /\ pc = "args"
  /\ IF args.argc # 3
       THEN Exit(1, "Usage")
       ELSE pc' = "config" /\ UNCHANGED <<exitCode, stderr>>
  /\ UNCHANGED <<args, env, cfg, devices, task, resultChan, chanClosed,
                 consumer, enq, stdout, rawOutput, parsed,
                 decoded>>

MainLoadConfig ==
  /\ pc = "config"
  /\ LET r == LoadConfig(env) IN
     IF ~r.ok
       THEN Exit(1, "Failed to load configuration") /\ UNCHANGED cfg
       ELSE pc' = "decode" /\ cfg' = r.cfg /\ UNCHANGED <<exitCode, stderr>>
  /\ UNCHANGED <<args, env, devices, task, resultChan, chanClosed,
                 consumer, enq, stdout, rawOutput, parsed,
                 decoded>>

MainDecode ==
  /\ pc = "decode"
  /\ LET r == decryptAndDecompressFile(env.file, cfg) IN
     /\ decoded' = r
     /\ IF ~r.ok
          THEN Exit(1, "Error reading devices") /\ UNCHANGED <<devices, task>>
          ELSE /\ pc' = "validate"
               /\ devices' = r.devices
               /\ task' = [i \in 1..Len(r.devices) |-> NewTask]
               /\ UNCHANGED <<exitCode, stderr>>
  /\ UNCHANGED <<args, env, cfg, resultChan, chanClosed, consumer, enq,
                 stdout, rawOutput, parsed>>

\* MainValidate without the check for an empty device list.
MainValidateNoCheck ==
  /\ pc = "validate"
  /\ pc' = "switch"
  /\ UNCHANGED <<args, env, cfg, devices, task, resultChan, chanClosed,
                 consumer, enq, stdout, stderr, exitCode, rawOutput, parsed,
                 decoded>>

MainValidate ==
  /\ pc = "validate"
  /\ IF Len(devices) = 0
       THEN Exit(1, "No devices provided in input")
       ELSE pc' = "switch" /\ UNCHANGED <<exitCode, stderr>>
  /\ UNCHANGED <<args, env, cfg, devices, task, resultChan, chanClosed,
                 consumer, enq, stdout, rawOutput, parsed,
                 decoded>>

\* the switch on mode, with the prologue of processMetrics/processDiscovery:
\* the key is hex-decoded (metrics), the channel is made with capacity
\* len(devices) and the output goroutine is started.
MainSwitch ==
  /\ pc = "switch"
  /\ IF args.mode = "metrics"
       THEN IF ~cfg.key.hex
              THEN Exit(0, "Invalid encryption key") /\ UNCHANGED consumer
              ELSE /\ pc' = IF Len(devices) = 0 THEN "wait" ELSE "spawn"
                   /\ consumer' = "running"
                   /\ UNCHANGED <<exitCode, stderr>>
     ELSE IF args.mode = "discovery"
       THEN /\ pc' = IF Len(devices) = 0 THEN "wait" ELSE "spawn"
            /\ consumer' = "running"
            /\ UNCHANGED <<exitCode, stderr>>
     ELSE Exit(1, "Unknown mode") /\ UNCHANGED consumer
  /\ UNCHANGED <<args, env, cfg, devices, task, resultChan, chanClosed,
                 enq, stdout, rawOutput, parsed,
                 decoded>>

\* ------------------------------- processMetrics / processDiscovery: tasks
\* one iteration of "for _, device := range devices": wg.Add(1); go func
Spawn(i) ==
  /\ pc = "spawn"
  /\ task[i].pc = "none"
  /\ \A j \in 1..(i - 1) : task[j].pc # "none"
  /\ task' = [task EXCEPT ![i].pc = "spawned"]
  /\ pc' = IF i = Len(devices) THEN "wait" ELSE "spawn"
  /\ UNCHANGED <<args, env, cfg, devices, resultChan, chanClosed, consumer,
                 enq, stdout, stderr, exitCode, rawOutput, parsed,
                 decoded>>

\* what the goroutine computes before its send: the dispatcher and the
\* variant's operation, or the result built by the deferred recover.
RunTask(mode, dev, w) ==
  IF w.fault = "taskPanic"
    THEN [result |-> IF mode = "metrics"
                       THEN NewMetricsError(dev.id, PanicText)
                       ELSE NewDiscoveryResult(dev.id, FALSE, PanicText),
          ops |-> <<Ev("panic", 0, "panic")>>]
  ELSE IF mode = "metrics"
    THEN Collect(GetMetricsCollector(dev.systemType), dev, w)
  ELSE Perform(GetDiscoveryPerformer(dev.systemType), dev, w)

\* TaskRun with the goroutine reading the loop variable instead of its own
\* argument: every task works on the last device of the batch.
TaskRunLoopVariable(i) ==
  /\ task[i].pc = "spawned"
  /\ \E w \in Worlds :
       LET r == RunTask(args.mode, devices[Len(devices)], w) IN
       task' = [task EXCEPT ![i] = [pc |-> "send", result |-> r.result,
                                    ops |-> r.ops]]
  /\ UNCHANGED <<pc, args, env, cfg, devices, resultChan, chanClosed,
                 consumer, enq, stdout, stderr, exitCode, rawOutput, parsed,
                 decoded>>

TaskRun(i) ==
  /\ task[i].pc = "spawned"
  /\ \E w \in Worlds :
       LET r == RunTask(args.mode, devices[i], w) IN
       task' = [task EXCEPT ![i] = [pc |-> "send", result |-> r.result,
                                    ops |-> r.ops]]
  /\ UNCHANGED <<pc, args, env, cfg, devices, resultChan, chanClosed,
                 consumer, enq, stdout, stderr, exitCode, rawOutput, parsed,
                 decoded>>

\* TaskSend without the send in the deferred recover: the result of a task
\* that panicked is not enqueued.
TaskSendLosesPanic(i) ==
  /\ task[i].pc = "send"
  /\ ~chanClosed
  /\ Len(resultChan) < Len(devices)
  /\ IF \E k \in 1..Len(task[i].ops) : task[i].ops[k].op = "panic"
       THEN UNCHANGED <<resultChan, enq>>
       ELSE /\ resultChan' = Append(resultChan, task[i].result)
            /\ enq' = Append(enq, [task |-> i, result |-> task[i].result])
  /\ task' = [task EXCEPT ![i].pc = "done"]
  /\ UNCHANGED <<pc, args, env, cfg, devices, chanClosed, consumer, stdout,
                 stderr, exitCode, rawOutput, parsed,
                 decoded>>

\* TaskSend putting its result at the front of the channel.
TaskSendInFront(i) ==
  /\ task[i].pc = "send"
  /\ ~chanClosed
  /\ Len(resultChan) < Len(devices)
  /\ resultChan' = <<task[i].result>> \o resultChan
  /\ enq' = Append(enq, [task |-> i, result |-> task[i].result])
  /\ task' = [task EXCEPT ![i].pc = "done"]
  /\ UNCHANGED <<pc, args, env, cfg, devices, chanClosed, consumer, stdout,
                 stderr, exitCode, rawOutput, parsed,
                 decoded>>

\* TaskSend on a channel made with room for one result fewer than there
\* are devices.
TaskSendSmallBuffer(i) ==
  /\ task[i].pc = "send"
  /\ ~chanClosed
  /\ Len(resultChan) < Len(devices) - 1
  /\ resultChan' = Append(resultChan, task[i].result)
  /\ enq' = Append(enq, [task |-> i, result |-> task[i].result])
  /\ task' = [task EXCEPT ![i].pc = "done"]
  /\ UNCHANGED <<pc, args, env, cfg, devices, chanClosed, consumer, stdout,
                 stderr, exitCode, rawOutput, parsed,
                 decoded>>

\* resultChan <- result, then the deferred wg.Done()
TaskSend(i) ==
  /\ task[i].pc = "send"
  /\ ~chanClosed
  /\ Len(resultChan) < Len(devices)
  /\ resultChan' = Append(resultChan, task[i].result)
  /\ enq' = Append(enq, [task |-> i, result |-> task[i].result])
  /\ task' = [task EXCEPT ![i].pc = "done"]
  /\ UNCHANGED <<pc, args, env, cfg, devices, chanClosed, consumer, stdout,
                 stderr, exitCode, rawOutput, parsed,
                 decoded>>

\* ---------------------------------------------------- the output goroutine
\* ConsumerRecv leaving the loop on an encode error instead of continuing.
ConsumerRecvStopsOnError ==
  /\ consumer = "running"
  /\ resultChan # <<>>
  /\ resultChan' = Tail(resultChan)
  /\ IF args.mode = "metrics"
       THEN \E rnd \in RandReads :
              LET e == encodeResult(Head(resultChan), cfg.key, rnd) IN
              IF e.ok
                THEN /\ stdout' = Append(stdout, e.line)
                     /\ UNCHANGED <<stderr, consumer>>
                ELSE /\ stderr' = Append(stderr, "Error encoding result")
                     /\ consumer' = "done"
                     /\ UNCHANGED stdout
       ELSE /\ stdout' = Append(stdout, jsonMarshal(Head(resultChan)))
            /\ UNCHANGED <<stderr, consumer>>
  /\ UNCHANGED <<pc, args, env, cfg, devices, task, chanClosed,
                 enq, exitCode, rawOutput, parsed,
                 decoded>>

\* ConsumerRecv printing the encode error where the line would have gone.
ConsumerRecvPrintsError ==
  /\ consumer = "running"
  /\ resultChan # <<>>
  /\ resultChan' = Tail(resultChan)
  /\ IF args.mode = "metrics"
       THEN \E rnd \in RandReads :
              LET e == encodeResult(Head(resultChan), cfg.key, rnd) IN
              IF e.ok
                THEN stdout' = Append(stdout, e.line) /\ UNCHANGED stderr
                ELSE /\ stdout' = Append(stdout, <<"Error encoding result">>)
                     /\ UNCHANGED stderr
       ELSE /\ stdout' = Append(stdout, jsonMarshal(Head(resultChan)))
            /\ UNCHANGED stderr
  /\ UNCHANGED <<pc, args, env, cfg, devices, task, chanClosed, consumer,
                 enq, exitCode, rawOutput, parsed,
                 decoded>>

\* ConsumerRecv taking results only once every task has finished.
ConsumerRecvAfterAll ==
  /\ consumer = "running"
  /\ resultChan # <<>>
  /\ \A i \in 1..Len(task) : task[i].pc = "done"
  /\ resultChan' = Tail(resultChan)
  /\ IF args.mode = "metrics"
       THEN \E rnd \in RandReads :
              LET e == encodeResult(Head(resultChan), cfg.key, rnd) IN
              IF e.ok
                THEN stdout' = Append(stdout, e.line) /\ UNCHANGED stderr
                ELSE /\ stderr' = Append(stderr, "Error encoding result")
                     /\ UNCHANGED stdout
       ELSE /\ stdout' = Append(stdout, jsonMarshal(Head(resultChan)))
            /\ UNCHANGED stderr
  /\ UNCHANGED <<pc, args, env, cfg, devices, task, chanClosed, consumer,
                 enq, exitCode, rawOutput, parsed,
                 decoded>>

\* one iteration of "for result := range resultChan"
ConsumerRecv ==
  /\ consumer = "running"
  /\ resultChan # <<>>
  /\ resultChan' = Tail(resultChan)
  /\ IF args.mode = "metrics"
       THEN \E rnd \in RandReads :
              LET e == encodeResult(Head(resultChan), cfg.key, rnd) IN
              IF e.ok
                THEN stdout' = Append(stdout, e.line) /\ UNCHANGED stderr
                ELSE /\ stderr' = Append(stderr, "Error encoding result")
                     /\ UNCHANGED stdout
       ELSE /\ stdout' = Append(stdout, jsonMarshal(Head(resultChan)))
            /\ UNCHANGED stderr
  /\ UNCHANGED <<pc, args, env, cfg, devices, task, chanClosed, consumer,
                 enq, exitCode, rawOutput, parsed,
                 decoded>>

\* the range loop ends on the closed, empty channel; outputWg.Done()
ConsumerExit ==
  /\ consumer = "running"
  /\ resultChan = <<>>
  /\ chanClosed
  /\ consumer' = "done"
  /\ UNCHANGED <<pc, args, env, cfg, devices, task, resultChan, chanClosed,
                 enq, stdout, stderr, exitCode, rawOutput, parsed,
                 decoded>>

\* --------------------------------------------------------- the two barriers
\* WaitProducers returning without waiting for the tasks.
WaitProducersNoWait ==
  /\ pc = "wait"
  /\ pc' = "close"
  /\ UNCHANGED <<args, env, cfg, devices, task, resultChan, chanClosed,
                 consumer, enq, stdout, stderr, exitCode, rawOutput, parsed,
                 decoded>>

\* wg.Wait()
WaitProducers ==
  /\ pc = "wait"
  /\ \A i \in 1..Len(devices) : task[i].pc = "done"
  /\ pc' = "close"
  /\ UNCHANGED <<args, env, cfg, devices, task, resultChan, chanClosed,
                 consumer, enq, stdout, stderr, exitCode, rawOutput, parsed,
                 decoded>>

\* close(resultChan)
CloseChan ==
  /\ pc = "close"
  /\ chanClosed' = TRUE
  /\ pc' = "drain"
  /\ UNCHANGED <<args, env, cfg, devices, task, resultChan, consumer, enq,
                 stdout, stderr, exitCode, rawOutput, parsed,
                 decoded>>

\* outputWg.Wait(), the return to main and os.Exit(0)
WaitConsumer ==
  /\ pc = "drain"
  /\ consumer = "done"
  /\ Exit(0, "")
  /\ UNCHANGED <<args, env, cfg, devices, task, resultChan, chanClosed,
                 consumer, enq, stdout, rawOutput, parsed,
                 decoded>>

Next ==
  \/ MainArgs
  \/ MainLoadConfig
  \/ MainDecode
  \/ MainValidate
  \/ MainSwitch
  \/ \E i \in 1..Len(devices) : Spawn(i)
  \/ \E i \in 1..Len(devices) : TaskRun(i)
  \/ \E i \in 1..Len(devices) : TaskSend(i)
  \/ ConsumerRecv
  \/ ConsumerExit
  \/ WaitProducers
  \/ CloseChan
  \/ WaitConsumer

Spec == Init /\ [][Next]_vars

\* The output goroutine is started before any task and does nothing but
\* receive and print; the Go scheduler runs a runnable goroutine, so a
\* receive that stays possible is eventually performed.  Nothing is assumed
\* of the tasks: a task may stay blocked in a dial or a command for ever.
SpecStream == Init /\ [][Next]_vars /\ WF_vars(ConsumerRecv)

\* ------------------------------------- the output goroutine's recover
\* A panic in the body of the range loop, on the result just received: the
\* deferred recover logs it, the loop is left and the deferred
\* outputWg.Done() runs; what is still in the channel is never received.
ConsumerPanic ==
  /\ consumer = "running"
  /\ resultChan # <<>>
  /\ resultChan' = Tail(resultChan)
  /\ consumer' = "done"
  /\ stderr' = Append(stderr, "Panic in output goroutine")
  /\ UNCHANGED <<pc, args, env, cfg, devices, task, chanClosed, enq, stdout,
                 exitCode, rawOutput, parsed,
                 decoded>>

NextHalt == Next \/ ConsumerPanic

\* The program with an output goroutine that may panic.  The Go scheduler
\* runs some runnable goroutine: while a step of main, of a task or of the
\* consumer is possible, one is eventually taken.  No goroutine is favoured,
\* so the consumer may be as slow as it likes, and the panic is not forced.
SpecHalt == Init /\ [][NextHalt]_vars /\ WF_vars(Next)

\* ------------------------------------ CollectMetrics on bounded outputs
\* The lines a command line may print, and the outputs built from them.
LinePool ==
  { <<"_", "_", "a", "_", "_">>,
    <<"_", "_", "b", "_", "_">>,
    <<" ", "_", "_", "a", "_", "_">>,
    <<"v">>,
    <<" ", "w", " ">>,
    <<>>,
    <<"_", "_">>,
    <<"_", "_", "_">>,
    <<"_", "_", "_", "_">>,
    <<"_", "a", "_">>,
    <<"_", "_", "a">>,
    <<"a", "_", "_">> }

\* "__hostname__\nbox1\n__uptime__\nup 3 days"
ExampleOutput ==
  <<"_", "_", "h", "o", "s", "t", "n", "a", "m", "e", "_", "_", "\n", "b",
    "o", "x", "1", "\n", "_", "_", "u", "p", "t", "i", "m", "e", "_", "_",
    "\n", "u", "p", " ", "3", " ", "d", "a", "y", "s">>

Hostname == <<"h", "o", "s", "t", "n", "a", "m", "e">>
Uptime == <<"u", "p", "t", "i", "m", "e">>
Box1 == <<"b", "o", "x", "1">>
Up3Days == <<"u", "p", " ", "3", " ", "d", "a", "y", "s">>

Outputs ==
  { Join(ls) : ls \in SeqsUpTo(LinePool, MaxLines) } \cup {ExampleOutput}

ParseDevice == [id |-> 1, systemType |-> "linux", port |-> 2222]

InitParse ==
  /\ pc = "unit"
  /\ rawOutput \in Outputs
  /\ parsed = NoResult
  /\ args = [argc |-> 3, mode |-> "metrics"]
  /\ env = [cfgOk |-> TRUE, key |-> KeyGood, file |-> GoodFile(<<>>)]
  /\ decoded = NoDecode
  /\ cfg = NoCfg
  /\ devices = <<>>
  /\ task = <<>>
  /\ resultChan = <<>>
  /\ chanClosed = FALSE
  /\ consumer = "none"
  /\ enq = <<>>
  /\ stdout = <<>>
  /\ stderr = <<>>
  /\ exitCode = -1

\* LinuxMetricsCollector.Collect on a device whose host accepts the
\* connection and prints rawOutput
CollectStep ==
  /\ pc = "unit"
  /\ parsed = NoResult
  /\ parsed' = Collect(GetMetricsCollector(ParseDevice.systemType),
                       ParseDevice,
                       [listen |-> {ParseDevice.port}, fault |-> "none",
                        out |-> rawOutput]).result
  /\ UNCHANGED <<pc, args, env, cfg, devices, task, resultChan, chanClosed,
                 consumer, enq, stdout, stderr, exitCode, rawOutput,
                 decoded>>

NextParse == CollectStep

SpecParse == InitParse /\ [][NextParse]_vars


\* ---------------------------------------------- the envelope, end to end
\* The encode layering of encodeResult followed by the decode layering of
\* decryptAndDecompressFile, on the payloads either of them handles: the
\* JSON of a device list and the JSON of a metrics result.
CodecNonces == {1, 2}

CodecPayloads ==
  { JsonArray(b) : b \in Batches } \cup
  { JsonObject(NewMetricsError(1, PanicText)),
    JsonObject(NewMetricsSuccess(2, MapSet(EmptyMap, <<"a">>, <<"v">>))) }

ValidKey(key) == key.hex /\ key.bytes \in AESKeySizes

InitCodec ==
  /\ pc = "codecEncode"
  /\ env \in [key : Keys, decKey : Keys, nonce : CodecNonces,
              payload : CodecPayloads]
  /\ rawOutput = <<>>
  /\ parsed = NoResult
  /\ args = [argc |-> 3, mode |-> "metrics"]
  /\ decoded = NoDecode
  /\ cfg = NoCfg
  /\ devices = <<>>
  /\ task = <<>>
  /\ resultChan = <<>>
  /\ chanClosed = FALSE
  /\ consumer = "none"
  /\ enq = <<>>
  /\ stdout = <<>>
  /\ stderr = <<>>
  /\ exitCode = -1

\* the encode layering under env.key; an unusable key yields no text
EncodeStep ==
  /\ pc = "codecEncode"
  /\ IF ValidKey(env.key)
       THEN /\ rawOutput' = Envelope(env.payload, env.key, env.nonce)
            /\ pc' = "codecDecode"
       ELSE pc' = "codecDone" /\ UNCHANGED rawOutput
  /\ UNCHANGED <<args, env, cfg, devices, task, resultChan, chanClosed,
                 consumer, enq, stdout, stderr, exitCode, parsed,
                 decoded>>

\* the decode layering under env.decKey, on the text just produced
DecodeStep ==
  /\ pc = "codecDecode"
  /\ parsed' = decryptAndDecompressFile(
                 [readable |-> TRUE, text |-> rawOutput],
                 [loaded |-> TRUE, key |-> env.decKey])
  /\ pc' = "codecDone"
  /\ UNCHANGED <<args, env, cfg, devices, task, resultChan, chanClosed,
                 consumer, enq, stdout, stderr, exitCode, rawOutput,
                 decoded>>

NextCodec == EncodeStep \/ DecodeStep

SpecCodec == InitCodec /\ [][NextCodec]_vars


\* ------------------------------------- the command line and the remote shell
\* The command line of CollectMetrics as the words the shell sees, and the
\* shell's evaluation of it: ";" sequences and-or lists, "&&" runs its right
\* side only after a left side that exited with status 0, and binds tighter
\* than ";".  The exit status of the line is that of the last command run.
Semi   == <<";">>
AndAnd == <<"&", "&">>

EchoTok(name) == [t |-> "echo", n |-> name]
CmdTok(name)  == [t |-> "cmd",  n |-> name]
SepTok(op)    == [t |-> "sep",  n |-> op]

\* fmt.Sprintf("echo '__%s__'; %s", name, cmd)
Fragment(name) == <<EchoTok(name), SepTok(Semi), CmdTok(name)>>

\* strings.Join(combinedCommands, " && ")
RECURSIVE JoinFragments(_, _)
JoinFragments(frags, sep) ==
  IF frags = <<>> THEN <<>>
  ELSE IF Len(frags) = 1 THEN frags[1]
  ELSE frags[1] \o <<SepTok(sep)>> \o JoinFragments(Tail(frags), sep)

\* order: the order in which the range over the commands map yields its keys
FinalCommand(order) ==
  JoinFragments([k \in 1..Len(order) |-> Fragment(order[k])], AndAnd)

\* the configured metric names, and what a metric's command may do on the
\* host: print its value and exit 0, or exit non-zero with or without a
\* message on the combined output
MetricNames == {<<"a">>, <<"b">>, <<"c">>}
Behaviours == {"ok", "failQuiet", "failLoud"}
CmdStatus(b) == IF b = "ok" THEN 0 ELSE 1
CmdLines(name, b) ==
  IF b = "ok" THEN << <<"v">> \o name >>
  ELSE IF b = "failLoud" THEN << <<"E">> \o name >>
  ELSE <<>>

RECURSIVE ShellEval(_, _, _)
ShellEval(tokens, behav, st) ==
  IF tokens = <<>> THEN st
  ELSE
    LET tok == Head(tokens) IN
    ShellEval(Tail(tokens), behav,
      IF tok.t = "sep"
        THEN [st EXCEPT !.skip = (tok.n = AndAnd /\ st.last # 0)]
      ELSE IF st.skip THEN st
      ELSE IF tok.t = "echo"
        THEN [st EXCEPT !.last = 0,
                        !.lines = Append(@, UU \o tok.n \o UU),
                        !.ran = Append(@, tok)]
      ELSE [st EXCEPT !.last = CmdStatus(behav[tok.n]),
                      !.lines = @ \o CmdLines(tok.n, behav[tok.n]),
                      !.ran = Append(@, tok)])

\* session.CombinedOutput(command) on the host
ShellRun(tokens, behav) ==
  ShellEval(tokens, behav,
            [last |-> 0, skip |-> FALSE, lines |-> <<>>, ran |-> <<>>])

\* the orders a map of one to three commands can be ranged over in
CommandOrders ==
  { q \in SeqsUpTo(MetricNames, Cardinality(MetricNames)) :
      /\ q # <<>>
      /\ \A i, j \in 1..Len(q) : q[i] = q[j] => i = j }

InitShell ==
  /\ pc = "shell"
  /\ env \in [order : CommandOrders, behav : [MetricNames -> Behaviours]]
  /\ rawOutput = <<>>
  /\ parsed = NoResult
  /\ args = [argc |-> 3, mode |-> "metrics"]
  /\ decoded = NoDecode
  /\ cfg = NoCfg
  /\ devices = <<>>
  /\ task = <<>>
  /\ resultChan = <<>>
  /\ chanClosed = FALSE
  /\ consumer = "none"
  /\ enq = <<>>
  /\ stdout = <<>>
  /\ stderr = <<>>
  /\ exitCode = -1

\* CollectMetrics up to the return of ExecuteCommand: the line is built and
\* run; a non-zero exit status is the error of CombinedOutput, and the task
\* ends with the command-execution failure
ShellStep ==
  /\ pc = "shell"
  /\ LET sh == ShellRun(FinalCommand(env.order), env.behav) IN
     IF sh.last # 0
       THEN /\ parsed' = Collect(GetMetricsCollector(ParseDevice.systemType),
                                 ParseDevice,
                                 [listen |-> {ParseDevice.port},
                                  fault |-> "run", out |-> <<>>]).result
            /\ pc' = "shellDone"
            /\ UNCHANGED rawOutput
       ELSE /\ rawOutput' = Join(sh.lines)
            /\ pc' = "unit"
            /\ UNCHANGED parsed
  /\ UNCHANGED <<args, env, cfg, devices, task, resultChan, chanClosed,
                 consumer, enq, stdout, stderr, exitCode,
                 decoded>>

NextShell == ShellStep \/ CollectStep

SpecShell == InitShell /\ [][NextShell]_vars


\* ==================================================================== claims
Range(q) == {q[k] : k \in 1..Len(q)}

Finished(i) == task[i].pc \in {"send", "done"}

EnqOf(i) == {k \in 1..Len(enq) : enq[k].task = i}

\* the result a line of the output stream carries
WrittenResult(line) ==
  IF line[1] = "base64" THEN line[2].rest[4][2][3] ELSE line[3]

ProcessingOver ==
  pc \in {"close", "drain"} \/ (pc = "exited" /\ consumer = "done")

\* C1: one task per device; every task enqueues exactly one result, under
\* the ID of its own device; when all tasks have finished exactly N results
\* have been enqueued and the multiset of their IDs is that of the input.
C1_Cardinality ==
  /\ pc \notin {"args", "config", "decode"} => Len(task) = Len(devices)
  /\ Len(enq) <= Len(devices)
  /\ \A k \in 1..Len(enq) :
       /\ enq[k].task \in 1..Len(devices)
       /\ enq[k].result.id = devices[enq[k].task].id
       /\ \A l \in 1..Len(enq) : enq[l].task = enq[k].task => l = k
  /\ \A i \in 1..Len(task) : (task[i].pc = "done") <=> (EnqOf(i) # {})
  /\ ProcessingOver =>
       /\ Len(enq) = Len(devices)
       /\ \A d \in DevicePool :
            Cardinality({k \in 1..Len(enq) : enq[k].result.id = d.id})
              = Cardinality({i \in 1..Len(devices) : devices[i].id = d.id})

C1_Witness ==
  /\ pc = "exited" /\ exitCode = 0
  /\ Len(devices) >= 2 /\ Len(enq) = Len(devices)
  /\ devices[1].id = devices[2].id
  /\ enq[1].task # 1
  /\ \E k \in 1..Len(enq) :
       \E e \in Range(task[enq[k].task].ops) : e.res = "panic"

\* C2: a task in which anything went wrong (an error or a panic) ends with
\* exactly one failure result under its device's ID; the result of a task
\* is one its own device could produce alone, whatever the other tasks did;
\* the process does not exit while a started task is unfinished and never
\* exits with code 1 once a task was started.
Faulted(i) == \E e \in Range(task[i].ops) : e.res # "ok"

C2_FaultIsolation ==
  /\ \A i \in 1..Len(task) :
       Finished(i) =>
         /\ Faulted(i) => /\ task[i].result.success = FALSE
                          /\ task[i].result.id = devices[i].id
         /\ task[i].result \in
              {RunTask(args.mode, devices[i], w).result : w \in Worlds}
         /\ Cardinality(EnqOf(i)) = IF task[i].pc = "done" THEN 1 ELSE 0
         /\ \A k \in EnqOf(i) : enq[k].result = task[i].result
  /\ (\E i \in 1..Len(task) : task[i].pc # "none") =>
       /\ exitCode # 1
       /\ pc = "exited" => \A i \in 1..Len(task) : task[i].pc = "done"

C2_Witness ==
  /\ pc = "exited" /\ exitCode = 0
  /\ \E i, j \in 1..Len(task) :
       /\ \E e \in Range(task[i].ops) : e.res = "panic"
       /\ task[i].result.success = FALSE
       /\ task[j].result.success = TRUE

\* C3: a run with a wrong argument count, an unknown mode, an unloadable
\* configuration, an undecodable input or an empty device list starts no
\* task, writes nothing to the output stream and exits with code 1; every
\* other run that exits does so with code 0 after all tasks have finished
\* and the consumer has drained.

\* the input file is the envelope, under the configured key, of the JSON
\* of a device list
InputDecodable ==
  /\ env.key.hex /\ env.key.bytes \in {16, 24, 32}
  /\ env.file.readable
  /\ env.file.text[1] = "base64"
  /\ env.file.text[2].len >= NonceSize
  /\ env.file.text[2].rest[4][1] = "snappy"
  /\ LET payload == env.file.text[2].rest[4][2] IN
     /\ env.file.text = Envelope(payload, env.key, FileNonce)
     /\ payload[1] = "json" /\ payload[2] = "array"

InputPayload == env.file.text[2].rest[4][2][3]

BootstrapFails ==
  \/ args.argc # 3
  \/ args.mode \notin {"metrics", "discovery"}
  \/ ~env.cfgOk
  \/ ~InputDecodable
  \/ InputPayload = <<>>

C3_ExitCodes ==
  /\ (exitCode # -1) <=> (pc = "exited")
  /\ BootstrapFails =>
       /\ \A i \in 1..Len(task) : task[i].pc = "none"
       /\ stdout = <<>>
       /\ pc = "exited" => exitCode = 1
  /\ (~BootstrapFails /\ pc = "exited") =>
       /\ exitCode = 0
       /\ Len(devices) > 0
       /\ \A i \in 1..Len(devices) : task[i].pc = "done"
       /\ consumer = "done" /\ resultChan = <<>>

C3_Witness ==
  /\ pc = "exited" /\ exitCode = 0
  /\ Len(devices) >= 2
  /\ \A i \in 1..Len(devices) : task[i].result.success = FALSE

\* C4: in discovery the gates are attempted in the order port, sshAuth,
\* session, uptime, each only after all earlier ones passed; a gate that
\* fails is the last one attempted and gives success=false with its name as
\* step; success=true is returned exactly when all four gates passed, and
\* then step is empty.
GateOrder == <<"port", "sshAuth", "session", "uptime">>

GateOf(op) ==
  CASE op = "probe" -> "port"
    [] op = "dial" -> "sshAuth"
    [] op = "session" -> "session"
    [] op = "run" -> "uptime"

IsNetworkOp(e) == e.op \in NetworkOps

Attempts(i) == SelectSeq(task[i].ops, IsNetworkOp)

C4_GateProgression ==
  args.mode = "discovery" =>
    \A i \in 1..Len(task) :
      Finished(i) =>
        LET a == Attempts(i)
            r == task[i].result
        IN
        /\ Len(a) <= Len(GateOrder)
        /\ \A k \in 1..Len(a) :
             /\ GateOf(a[k].op) = GateOrder[k]
             /\ \A j \in 1..(k - 1) : a[j].res = "ok"
             /\ a[k].res = "fail" =>
                  /\ k = Len(a)
                  /\ r.success = FALSE
                  /\ r.step = <<GateOrder[k]>>
        /\ r.success <=>
             (Len(a) = Len(GateOrder) /\ \A k \in 1..Len(a) : a[k].res = "ok")
        /\ r.success <=> (r.step = <<>>)

C4_Witness ==
  /\ args.mode = "discovery"
  /\ \E i, j \in 1..Len(task) :
       /\ Finished(i) /\ task[i].result.success
       /\ Finished(j) /\ task[j].result.step = <<"sshAuth">>
       /\ \E e \in Range(task[j].ops) :
            e.op = "probe" /\ e.res = "ok"


\* C5 (as stated): every DiscoveryResult written in discovery mode has
\* success=true and step="", or success=false and step one of the four gate
\* names.
GateSteps == {<<GateOrder[k]>> : k \in 1..Len(GateOrder)}

C5_StepIsGateName ==
  args.mode = "discovery" =>
    \A n \in 1..Len(stdout) :
      LET r == WrittenResult(stdout[n]) IN
      \/ r.success /\ r.step = <<>>
      \/ ~r.success /\ r.step \in GateSteps

\* C5 (amended): every DiscoveryResult written in discovery mode is the
\* result some task enqueued, and has success=true and step="", or
\* success=false and step is a gate name, or the text "unsupported system
\* type: <type>" of a device whose type is not linux, or the text of a
\* recovered panic.
C5_StepShapes ==
  args.mode = "discovery" =>
    /\ \A n \in 1..Len(stdout) :
         \E k \in 1..Len(enq) : WrittenResult(stdout[n]) = enq[k].result
    /\ \A k \in 1..Len(enq) :
         LET r == enq[k].result
             i == enq[k].task
         IN
         \/ r.success /\ r.step = <<>>
         \/ ~r.success /\ r.step \in GateSteps
                       /\ devices[i].systemType = "linux"
         \/ ~r.success /\ devices[i].systemType # "linux"
                       /\ r.step = <<"unsupported system type: ",
                                     devices[i].systemType>>
         \/ ~r.success /\ r.step = PanicText
                       /\ \E e \in Range(task[i].ops) : e.res = "panic"

C5_Witness ==
  /\ args.mode = "discovery"
  /\ \E n, m \in 1..Len(stdout) :
       /\ WrittenResult(stdout[n]).step = <<"unsupported system type: ", "windows">>
       /\ WrittenResult(stdout[m]).step \in GateSteps

\* C6 (as stated): for a device whose port field is 0 every connection
\* attempt, the reachability probe and the SSH dial alike, targets port 22;
\* so such a device whose host accepts on port 22 passes the port gate.
C6_UnsetPortTargets22 ==
  \A i \in 1..Len(task) :
    (Finished(i) /\ devices[i].port = 0) =>
      \A e \in Range(task[i].ops) :
        e.op \in {"probe", "dial"} => e.port = DefaultSSHPort

\* C7: a device whose system type is not exactly "linux" ends, in either
\* mode, with exactly one failure result under its ID, and its task performs
\* no network operation and opens nothing.
C7_UnsupportedNoNetwork ==
  \A i \in 1..Len(task) :
    (Finished(i) /\ devices[i].systemType # "linux") =>
      /\ task[i].result.success = FALSE
      /\ task[i].result.id = devices[i].id
      /\ \A e \in Range(task[i].ops) :
           e.op \notin NetworkOps \cup {"closeProbe", "closeClient",
                                    "closeSession"}
      /\ Cardinality(EnqOf(i)) = IF task[i].pc = "done" THEN 1 ELSE 0

C7_Witness ==
  /\ pc = "exited" /\ args.mode = "discovery"
  /\ \E i, j \in 1..Len(task) :
       /\ devices[i].systemType = "Linux" /\ task[i].ops = <<>>
       /\ devices[j].systemType = "windows" /\ task[j].ops = <<>>

\* C8 (as stated): the parse of the output is the scan in which a line
\* `__<name>__` opens metric <name>, the next non-marker line, trimmed, is
\* that metric's value and closes it, a marker followed by a marker or by
\* the end sets nothing, and other lines are ignored; the output
\* "__hostname__\nbox1\n__uptime__\nup 3 days" gives exactly
\* {hostname: "box1", uptime: "up 3 days"}.
ClaimMarker(line) ==
  Len(line) > 2 * Len(UU) /\ HasPrefix(line, UU) /\ HasSuffix(line, UU)

ClaimName(line) == SubSeq(line, Len(UU) + 1, Len(line) - Len(UU))

RECURSIVE ClaimScan(_, _, _)
ClaimScan(lines, open, m) ==
  IF lines = <<>> THEN m
  ELSE LET line == TrimSpace(Head(lines)) IN
       IF ClaimMarker(line) THEN ClaimScan(Tail(lines), ClaimName(line), m)
       ELSE IF open # <<>>
         THEN ClaimScan(Tail(lines), <<>>, MapSet(m, open, line))
       ELSE ClaimScan(Tail(lines), <<>>, m)

ClaimParse(out) == ClaimScan(Split(TrimSpace(out)), <<>>, EmptyMap)

C8_ParserFraming ==
  parsed # NoResult =>
    /\ IF ClaimParse(rawOutput) = EmptyMap
         THEN ~parsed.success
         ELSE parsed.success /\ parsed.metrics = ClaimParse(rawOutput)
    /\ rawOutput = ExampleOutput =>
         parsed.metrics = (Hostname :> Box1) @@ (Uptime :> Up3Days)

\* C9: when the command returned without error and its output has no
\* marker that is followed by a value line, the result is the failure
\* tagged execution-failed; a success result carries at least one metric.
OutputLines == Split(TrimSpace(rawOutput))

HasValuePair ==
  \E k \in 1..(Len(OutputLines) - 1) :
    /\ IsMarker(TrimSpace(OutputLines[k]))
    /\ TrimSuffix(TrimPrefix(TrimSpace(OutputLines[k]), UU), UU) # <<>>
    /\ ~IsMarker(TrimSpace(OutputLines[k + 1]))

C9_ZeroMetricsIsFailure ==
  parsed # NoResult =>
    /\ ~HasValuePair =>
         /\ parsed.success = FALSE
         /\ parsed.metrics = (ErrorKey :> <<ErrExecutionFailed>>)
    /\ parsed.success => DOMAIN parsed.metrics # {}

C9_Witness ==
  /\ parsed # NoResult
  /\ parsed.success = FALSE
  /\ rawOutput = <<"_", "_", "a", "_", "_", "\n", "_", "_", "b", "_", "_">>

\* C10: every MetricsResult with success=false, wherever it is (held by a
\* task, enqueued, or written), has a metrics map with exactly one entry,
\* under the key "error".
ErrorShaped(r) == r.success = FALSE => DOMAIN r.metrics = {ErrorKey}

C10_FailureHasErrorEntry ==
  args.mode = "metrics" =>
    /\ \A i \in 1..Len(task) : Finished(i) => ErrorShaped(task[i].result)
    /\ \A k \in 1..Len(enq) : ErrorShaped(enq[k].result)
    /\ \A k \in 1..Len(resultChan) : ErrorShaped(resultChan[k])
    /\ \A n \in 1..Len(stdout) : ErrorShaped(WrittenResult(stdout[n]))

C10_Witness ==
  /\ args.mode = "metrics"
  /\ \E n, m \in 1..Len(stdout) :
       /\ WrittenResult(stdout[n]).metrics = (ErrorKey :> <<ErrExecutionFailed>>)
       /\ WrittenResult(stdout[m]).metrics = (ErrorKey :> PanicText)


\* C11: in metrics mode a result whose encoding fails is logged and dropped,
\* and only that one: the consumer goes on draining, every other result
\* taken from the channel is written as one line, and the run ends with exit
\* code 0 and N minus the number of encode failures lines.
EncodeErrors ==
  Cardinality({n \in 1..Len(stderr) : stderr[n] = "Error encoding result"})

Consumed == Len(enq) - Len(resultChan)

C11_EncodeFailureDropsOne ==
  args.mode = "metrics" =>
    /\ Len(stdout) + EncodeErrors = Consumed
    /\ \A n \in 1..Len(stdout) :
         \E k \in 1..Consumed :
           stdout[n] = encodeResult(enq[k].result, cfg.key, 1).line
    /\ consumer = "done" => (chanClosed /\ resultChan = <<>>)
    /\ (pc = "exited" /\ Len(enq) > 0) =>
         /\ exitCode = 0
         /\ Len(stdout) = Len(devices) - EncodeErrors

C11_Witness ==
  /\ args.mode = "metrics"
  /\ pc = "exited" /\ exitCode = 0
  /\ Len(devices) >= 2
  /\ EncodeErrors = 1
  /\ Len(stdout) = Len(devices) - 1

\* ---------------------------------------------------------------- C12
IsPrefix(a, b) == Len(a) <= Len(b) /\ a = SubSeq(b, 1, Len(a))

DecodeRan == decoded.ran # <<>>

\* the input reaches the GCM open (outer layers and key are well-formed) and
\* its sealed part is not what the configured key authenticates
Unauthenticated ==
  /\ env.key.hex /\ env.key.bytes \in AESKeySizes
  /\ env.file.readable
  /\ env.file.text[1] = "base64"
  /\ env.file.text[2].len >= NonceSize
  /\ env.file.text[2].rest[2] # env.key.secret

\* C12: the decode performs its stages in the one fixed order, stops at the
\* first stage that fails, and then yields no devices, starts no task and
\* ends the run with code 1; it succeeds only when all nine stages ran.
\* Altered ciphertext or a wrong key stops it at the GCM open, before the
\* decompression and the JSON parse.
C12_StagedDecode ==
  DecodeRan =>
    /\ IsPrefix(decoded.ran, StageOrder)
    /\ decoded.ok => decoded.ran = StageOrder
    /\ ~decoded.ok =>
         /\ decoded.stage = decoded.ran[Len(decoded.ran)]
         /\ decoded.devices = <<>> /\ devices = <<>> /\ task = <<>>
         /\ pc = "exited" /\ exitCode = 1
         /\ enq = <<>> /\ stdout = <<>>
    /\ Unauthenticated =>
         /\ ~decoded.ok /\ decoded.stage = "open"
         /\ \A k \in 1..Len(decoded.ran) :
              decoded.ran[k] \notin {"snappy", "json"}

\* altered ciphertext whose plaintext would also have failed a later stage
C12_Witness ==
  /\ DecodeRan /\ Unauthenticated
  /\ env.file.text[2].rest[2] = -1
  /\ env.file.text[2].rest[4] = SnappyEncode(<<"garbage">>)
  /\ decoded.stage = "open"
  /\ pc = "exited" /\ exitCode = 1

\* ---------------------------------------------------------------- C13
\* line is what the consumer prints for result
Encodes(line, result) ==
  IF args.mode = "metrics"
    THEN \E rnd \in RandReads :
           LET e == encodeResult(result, cfg.key, rnd) IN
           e.ok /\ line = e.line
    ELSE line = jsonMarshal(result)

OutputIsResults ==
  /\ Len(stdout) <= Consumed
  /\ \A n \in 1..Len(stdout) :
       \E k \in 1..Consumed :
         /\ Encodes(stdout[n], enq[k].result)
         /\ enq[k].result.id = devices[enq[k].task].id
  /\ (consumer = "none" \/ exitCode = 1) => stdout = <<>>

\* C13: the output stream grows only by the consumer taking one result from
\* the channel and appending the one line that encodes it; every line on it
\* encodes a result of an input device; a run that fails at start-up, and
\* every diagnostic (usage, decode and encode errors), leave it untouched.
C13_PureResultFeed ==
  /\ []OutputIsResults
  /\ [][stdout' # stdout =>
          /\ consumer = "running"
          /\ resultChan # <<>>
          /\ resultChan' = Tail(resultChan)
          /\ Len(stdout') = Len(stdout) + 1
          /\ SubSeq(stdout', 1, Len(stdout)) = stdout
          /\ Encodes(stdout'[Len(stdout')], Head(resultChan))
          /\ stderr' = stderr]_vars

\* a run with a recovered panic and an encode error: the one line on the
\* output stream is the panicked task's result, the error is on stderr
C13_Witness ==
  /\ args.mode = "metrics" /\ pc = "exited"
  /\ Len(stdout) = 1 /\ Len(stderr) = 1
  /\ WrittenResult(stdout[1]).metrics = (ErrorKey :> PanicText)

\* ---------------------------------------------------------------- C14
RoundTripDone ==
  /\ pc = "codecDone"
  /\ ValidKey(env.key)
  /\ env.decKey = env.key

\* C14 as stated: for any payload and any valid key, the decode layering
\* applied under the same key to the output of the encode layering succeeds
\* and returns the original payload.
C14_RoundTrip ==
  RoundTripDone => (parsed.ok /\ parsed.devices = env.payload[3])

\* C14: under a valid key the encode layers (compression, seal under the
\* nonce, nonce in front, Base64) are undone by the decode layers in reverse:
\* the decode under the same key passes every stage up to the JSON parse.
\* The JSON of a device list comes back as the same list; the JSON of a
\* metrics result, which is what encodeResult writes, is refused by the JSON
\* parse into a device list, after its bytes were recovered.  Under another
\* valid key the decode stops at the GCM open.
C14_LayersInvert ==
  (pc = "codecDone" /\ ValidKey(env.key)) =>
    /\ env.decKey = env.key =>
         /\ parsed.ran = StageOrder
         /\ env.payload[2] = "array" =>
              (parsed.ok /\ parsed.devices = env.payload[3])
         /\ env.payload[2] = "object" =>
              (~parsed.ok /\ parsed.stage = "json")
    /\ (ValidKey(env.decKey) /\ env.decKey # env.key) =>
         (~parsed.ok /\ parsed.stage = "open")

C14_Witness ==
  /\ RoundTripDone
  /\ env.payload[2] = "array" /\ Len(env.payload[3]) = 2
  /\ env.nonce = 2
  /\ parsed.ok /\ parsed.devices = env.payload[3]

\* ---------------------------------------------------------------- C15
AllTasksDone == \A i \in 1..Len(task) : task[i].pc = "done"

BarrierOrder ==
  /\ (pc \in {"close", "drain"} \/ chanClosed) =>
       (AllTasksDone /\ Len(enq) = Len(devices))
  /\ pc = "drain" => chanClosed
  /\ consumer = "done" => (chanClosed /\ resultChan = <<>>)
  /\ (pc = "exited" /\ consumer # "none") =>
       /\ consumer = "done"
       /\ chanClosed /\ resultChan = <<>>
       /\ Consumed = Len(devices)

\* C15: the channel is closed only once every task has sent its result and
\* finished, so every send finds the channel open and all N results are
\* enqueued; the orchestrator returns only after the consumer has taken
\* every enqueued result from the closed channel and finished.
C15_TwoBarriers ==
  /\ []BarrierOrder
  /\ [][/\ chanClosed' # chanClosed => (~chanClosed /\ AllTasksDone)
        /\ enq' # enq => (~chanClosed /\ pc \in {"spawn", "wait"})
        /\ (pc' = "exited" /\ pc = "drain") =>
             (consumer = "done" /\ resultChan = <<>>)]_vars

\* the consumer still has both results to take after the close
C15_Witness ==
  /\ chanClosed /\ pc = "drain"
  /\ consumer = "running"
  /\ Len(resultChan) = 2 /\ Len(devices) = 2

\* ---------------------------------------------------------------- C16
ShellOf == ShellRun(FinalCommand(env.order), env.behav)

\* C16 as stated: every configured metric's marker echo and its command run
\* whatever the exit status of the commands before them, and every value
\* captured under a name was printed by that name's command.
C16_UnconditionalSequencing ==
  pc \in {"unit", "shellDone"} =>
    /\ \A k \in 1..Len(env.order) :
         /\ EchoTok(env.order[k]) \in Range(ShellOf.ran)
         /\ CmdTok(env.order[k]) \in Range(ShellOf.ran)
    /\ (pc = "unit" /\ parsed # NoResult /\ parsed.success) =>
         \A n \in DOMAIN parsed.metrics :
           parsed.metrics[n] \in Range(CmdLines(n, env.behav[n]))

\* ---------------------------------------------------------------- C17
\* C17: a result in the channel is always takable by the running consumer,
\* whatever the other tasks are doing; and, the consumer being scheduled,
\* the k-th enqueued result is eventually taken from the channel (and then
\* written, or dropped by an encode failure), even if other tasks never
\* finish.
C17_Streamed ==
  /\ [](resultChan # <<>> => (consumer = "running" /\ ENABLED ConsumerRecv))
  /\ \A k \in 1..MaxDevices : (Len(enq) >= k) ~> (Consumed >= k)

\* a line is on the output stream while another task is still at work
C17_Witness ==
  /\ pc = "wait"
  /\ Len(stdout) = 1 /\ resultChan = <<>>
  /\ \E i \in 1..Len(task) : task[i].pc = "spawned"

\* ---------------------------------------------------------------- C18
\* C18 as stated: the configuration is loaded once, in main; no device task
\* loads it, and no task's result reports a failure to load it.
C18_ConfigLoadedOnce ==
  /\ \A i \in 1..Len(task) :
       \A k \in 1..Len(task[i].ops) : task[i].ops[k].op # "loadConfig"
  /\ args.mode = "metrics" =>
       \A k \in 1..Len(enq) :
         ~enq[k].result.success =>
           enq[k].result.metrics[ErrorKey] # <<"Config load error: ">>

\* ---------------------------------------------------------------- C19
\* what releases each kind of thing a task opens
CloseOf ==
  [probe |-> "closeProbe", dial |-> "closeClient", session |-> "closeSession"]

Opened(h, o) == {k \in 1..Len(h) : h[k].op = o /\ h[k].res = "ok"}
Closed(h, o) == {k \in 1..Len(h) : h[k].op = CloseOf[o]}

\* in history h every successful open has its own later close, and nothing
\* else is closed
Released(h) ==
  \A o \in DOMAIN CloseOf :
    /\ Cardinality(Closed(h, o)) = Cardinality(Opened(h, o))
    /\ \A k \in Opened(h, o) :
         \E c \in Closed(h, o) : c > k /\ h[c].port = h[k].port

\* C19: a task that has finished, however it ended, has closed every probe
\* connection, transport connection and session it opened; when the
\* orchestrator has returned, every task has finished, so none is open.
C19_AllReleased ==
  /\ \A i \in 1..Len(task) : Finished(i) => Released(task[i].ops)
  /\ (pc = "exited" /\ consumer # "none") =>
       \A i \in 1..Len(task) : Finished(i)

\* a discovery run in which one task panicked with the transport open and
\* the other failed its command with transport and session open
C19_Witness ==
  /\ pc = "exited" /\ args.mode = "discovery" /\ Len(task) = 2
  /\ \E k \in 1..Len(task[1].ops) :
       task[1].ops[k].op = "session" /\ task[1].ops[k].res = "panic"
  /\ \E k \in 1..Len(task[2].ops) :
       task[2].ops[k].op = "run" /\ task[2].ops[k].res = "fail"
  /\ Opened(task[2].ops, "session") # {}

\* ---------------------------------------------------------------- C20
Tried(h, o) == {k \in 1..Len(h) : h[k].op = o}

\* in history h each network operation is attempted at most once, and one
\* that did not succeed is followed by releases only
OnceEach(h) ==
  /\ \A o \in NetworkOps : Cardinality(Tried(h, o)) <= 1
  /\ \A k \in 1..Len(h) :
       (h[k].op \in NetworkOps /\ h[k].res # "ok") =>
         \A l \in (k + 1)..Len(h) :
           h[l].op \in {"closeProbe", "closeClient", "closeSession"}

FailedOp(h) ==
  \E k \in 1..Len(h) : h[k].op \in NetworkOps /\ h[k].res # "ok"

\* C20 as stated: nothing is attempted twice, a failed operation ends the
\* task in failure, and every metrics task opens exactly one transport
\* connection and at most one session.
C20_ExactlyOneTransport ==
  \A i \in 1..Len(task) :
    Finished(i) =>
      /\ OnceEach(task[i].ops)
      /\ FailedOp(task[i].ops) => ~task[i].result.success
      /\ args.mode = "metrics" =>
           /\ Cardinality(Opened(task[i].ops, "dial")) = 1
           /\ Cardinality(Opened(task[i].ops, "session")) <= 1

\* C20: within a task each network operation is attempted at most once and
\* a failed one ends the task in failure with no further attempt.  A metrics
\* task dials once exactly when its device is of type linux and the task did
\* not panic before the dial, and never otherwise; it opens at most one
\* transport connection, to the port CreateSSHClient chooses for its device,
\* and at most one session, and a session only on an open connection.
C20_NoRetry ==
  \A i \in 1..Len(task) :
    Finished(i) =>
      /\ OnceEach(task[i].ops)
      /\ FailedOp(task[i].ops) => ~task[i].result.success
      /\ args.mode = "metrics" =>
           /\ Cardinality(Tried(task[i].ops, "dial")) =
                IF /\ devices[i].systemType = "linux"
                   /\ Tried(task[i].ops, "panic") = {}
                  THEN 1 ELSE 0
           /\ \A k \in Tried(task[i].ops, "dial") :
                task[i].ops[k].port = DialPort(devices[i])
           /\ Cardinality(Opened(task[i].ops, "dial")) <= 1
           /\ Cardinality(Tried(task[i].ops, "session")) <= 1
           /\ Tried(task[i].ops, "session") # {} =>
                Opened(task[i].ops, "dial") # {}

\* a metrics run with a task whose dial failed and a task whose command
\* failed on an open session
C20_Witness ==
  /\ pc = "exited" /\ args.mode = "metrics" /\ Len(task) = 2
  /\ \E k \in Tried(task[1].ops, "dial") : task[1].ops[k].res = "fail"
  /\ \E k \in Tried(task[2].ops, "run") : task[2].ops[k].res = "fail"
  /\ Opened(task[2].ops, "session") # {}

\* ---------------------------------------------------------------- C21
\* lines are, in order, what the consumer prints for some of the results,
\* taken in their order
RECURSIVE InOrderOf(_, _)
InOrderOf(lines, results) ==
  IF lines = <<>> THEN TRUE
  ELSE IF results = <<>> THEN FALSE
  ELSE IF Encodes(Head(lines), Head(results).result)
    THEN InOrderOf(Tail(lines), Tail(results))
  ELSE InOrderOf(lines, Tail(results))

FifoOrder ==
  /\ resultChan =
       [k \in 1..Len(resultChan) |-> enq[Consumed + k].result]
  /\ InOrderOf(stdout, SubSeq(enq, 1, Consumed))
  /\ EncodeErrors = 0 =>
       /\ Len(stdout) = Consumed
       /\ \A n \in 1..Len(stdout) : Encodes(stdout[n], enq[n].result)

\* C21: the channel holds the results not yet taken in the order they were
\* enqueued, a send adds at its end and the consumer takes from its front
\* and appends to the output stream or drops; so the lines on the output
\* stream are in enqueue order, whatever the tasks' positions in the input,
\* and a dropped result leaves the order of the others as it was.
C21_CompletionOrder ==
  /\ []FifoOrder
  /\ [][/\ enq' # enq =>
             /\ resultChan' = Append(resultChan, enq'[Len(enq')].result)
             /\ stdout' = stdout
        /\ (resultChan' # resultChan /\ enq' = enq) =>
             /\ resultChan' = Tail(resultChan)
             /\ \/ stdout' = stdout
                \/ /\ Len(stdout') = Len(stdout) + 1
                   /\ SubSeq(stdout', 1, Len(stdout)) = stdout
                   /\ Encodes(stdout'[Len(stdout')], Head(resultChan))]_vars

\* the second device of the input finished first and its line comes first
C21_Witness ==
  /\ pc = "exited" /\ Len(devices) = 2 /\ Len(stdout) = 2
  /\ devices[1].id # devices[2].id
  /\ enq[1].task = 2 /\ enq[2].task = 1
  /\ WrittenResult(stdout[1]).id = devices[2].id
  /\ WrittenResult(stdout[2]).id = devices[1].id

\* ---------------------------------------------------------------- C22
ConsumerPanicked ==
  \E n \in 1..Len(stderr) : stderr[n] = "Panic in output goroutine"

\* C22: a task that has its result to send can always send it, the channel
\* having room for one result per device, whether the consumer is slow or
\* has stopped after a panic; as long as the program has not exited some
\* goroutine can take a step; and every run exits.
C22_NoBlockedSend ==
  /\ [](\A i \in 1..Len(task) :
          task[i].pc = "send" => ENABLED TaskSend(i))
  /\ [](pc # "exited" => ENABLED Next)
  /\ <>(pc = "exited")

\* the run exited although the consumer stopped on the first result and
\* the second stayed in the channel
C22_Witness ==
  /\ pc = "exited" /\ exitCode = 0
  /\ ConsumerPanicked
  /\ Len(devices) = 2 /\ Len(enq) = 2
  /\ Len(resultChan) = 1 /\ stdout = <<>>

====
